---- MODULE Spec2Model ----
(***************************************************************************)
(* Model of scripts/adjust-torch-versions.py: the version resolver         *)
(* (find_latest and the three _determine_* rules), the manifest rewriter   *)
(* (adjust) and the read-transform-write sequence of main.                 *)
(*                                                                         *)
(* A Python str is modelled as a sequence of one-character strings, so     *)
(* that the regular expressions, strip/split, int() and str() are          *)
(* computed character by character as the interpreter computes them.       *)
(***************************************************************************)
EXTENDS Integers, Sequences, FiniteSets, TLC

VARIABLES pc, torch_version, installed, requires, adjusted, readjusted,
          latest, disk, disk_before

vars == <<pc, torch_version, installed, requires, adjusted, readjusted,
          latest, disk, disk_before>>

----------------------------------------------------------------------------
(* Characters and character classes of the regular expressions.            *)

Digits == {"0", "1", "2", "3", "4", "5", "6", "7", "8", "9"}

Letters == {"a", "b", "c", "d", "e", "f", "g", "h", "i", "j", "k", "l", "m",
            "n", "o", "p", "q", "r", "s", "t", "u", "v", "w", "x", "y", "z",
            "A", "B", "C", "D", "E", "F", "G", "H", "I", "J", "K", "L", "M",
            "N", "O", "P", "Q", "R", "S", "T", "U", "V", "W", "X", "Y", "Z"}

\* \w of the re module
WordChars == Letters \cup Digits \cup {"_"}

\* the class [-_\w] of the negative lookahead in adjust
IdentChars == WordChars \cup {"-", "_"}

\* the class [\.\d] of the version pattern
VerChars == Digits \cup {"."}

\* what str.strip() removes
Whitespace == {" ", "\t", "\n", "\r", "\f"}

\* os.linesep on the POSIX hosts the script runs on
linesep == <<"\n">>

DigitValue(c) ==
  CASE c = "0" -> 0 [] c = "1" -> 1 [] c = "2" -> 2 [] c = "3" -> 3
    [] c = "4" -> 4 [] c = "5" -> 5 [] c = "6" -> 6 [] c = "7" -> 7
    [] c = "8" -> 8 [] c = "9" -> 9

DigitChar(d) ==
  CASE d = 0 -> "0" [] d = 1 -> "1" [] d = 2 -> "2" [] d = 3 -> "3"
    [] d = 4 -> "4" [] d = 5 -> "5" [] d = 6 -> "6" [] d = 7 -> "7"
    [] d = 8 -> "8" [] d = 9 -> "9"

----------------------------------------------------------------------------
(* str methods and builtins used by the script.                            *)

RECURSIVE LStrip(_)
LStrip(s) ==
  IF s # <<>> /\ Head(s) \in Whitespace THEN LStrip(Tail(s)) ELSE s

RECURSIVE RStrip(_)
RStrip(s) ==
  IF s # <<>> /\ s[Len(s)] \in Whitespace
  THEN RStrip(SubSeq(s, 1, Len(s) - 1))
  ELSE s

Strip(s) == LStrip(RStrip(s))

\* least index >= i of s holding a character of set cs, Len(s) + 1 if none
RECURSIVE FindChar(_, _, _)
FindChar(s, cs, i) ==
  IF i > Len(s) THEN Len(s) + 1
  ELSE IF s[i] \in cs THEN i
  ELSE FindChar(s, cs, i + 1)

\* least index >= i of s holding a character outside cs, Len(s) + 1 if none
RECURSIVE FindNotChar(_, _, _)
FindNotChar(s, cs, i) ==
  IF i > Len(s) THEN Len(s) + 1
  ELSE IF s[i] \notin cs THEN i
  ELSE FindNotChar(s, cs, i + 1)

\* s.split(sep) for a one-character separator: every occurrence splits
RECURSIVE Split(_, _)
Split(s, sep) ==
  LET p == FindChar(s, {sep}, 1)
  IN IF p > Len(s) THEN <<s>>
     ELSE <<SubSeq(s, 1, p - 1)>> \o Split(SubSeq(s, p + 1, Len(s)), sep)

\* s.split(sep, maxsplit=1): only the first occurrence splits
SplitOnce(s, sep) ==
  LET p == FindChar(s, {sep}, 1)
  IN IF p > Len(s) THEN <<s>>
     ELSE <<SubSeq(s, 1, p - 1), SubSeq(s, p + 1, Len(s))>>

\* sep.join(parts)
RECURSIVE Join(_, _)
Join(parts, sep) ==
  IF parts = <<>> THEN <<>>
  ELSE IF Len(parts) = 1 THEN parts[1]
  ELSE parts[1] \o <<sep>> \o Join(Tail(parts), sep)

\* int(s) for a string of decimal digits (the caller excludes the empty one)
RECURSIVE ParseInt(_)
ParseInt(s) ==
  IF s = <<>> THEN 0
  ELSE 10 * ParseInt(SubSeq(s, 1, Len(s) - 1)) + DigitValue(s[Len(s)])

\* str(n) for a non-negative int
RECURSIVE IntToStr(_)
IntToStr(n) ==
  IF n < 10 THEN <<DigitChar(n)>>
  ELSE IntToStr(n \div 10) \o <<DigitChar(n % 10)>>

----------------------------------------------------------------------------
(* Outcome of a call: the returned value, or the exception it raised.      *)

Ok(v) == [err |-> "none", val |-> v]

Raise(e) == [err |-> e, val |-> <<>>]

\* re.search(r"([\.\d]+)", s).groups()[0]: the first maximal run of digits
\* and dots; re.search returns None when there is none, and .groups() on
\* None raises AttributeError
SearchVersion(s) ==
  LET b == FindChar(s, VerChars, 1)
      e == FindNotChar(s, VerChars, b)
  IN IF b > Len(s) THEN Raise("AttributeError")
     ELSE Ok(SubSeq(s, b, e - 1))

\* ver_major, ver_minor, ver_bugfix = map(int, torch_ver.split(".")):
\* ValueError unless exactly three components, each accepted by int()
ParseTriple(torch_ver) ==
  LET parts == Split(torch_ver, ".")
  IN IF Len(parts) # 3 \/ \E i \in 1..Len(parts) : parts[i] = <<>>
     THEN Raise("ValueError")
     ELSE Ok([i \in 1..3 |-> ParseInt(parts[i])])

\* ".".join(map(str, array))
FormatTriple(array) ==
  Join([i \in 1..3 |-> IntToStr(array[i])], ".")

----------------------------------------------------------------------------
(* The version strings of the exception tables.                            *)

v_1_8_2 == <<"1", ".", "8", ".", "2">>
v_1_10_0 == <<"1", ".", "1", "0", ".", "0">>
v_1_10_1 == <<"1", ".", "1", "0", ".", "1">>
v_1_10_2 == <<"1", ".", "1", "0", ".", "2">>
v_2_0_0 == <<"2", ".", "0", ".", "0">>
v_2_0_1 == <<"2", ".", "0", ".", "1">>
v_0_9_1 == <<"0", ".", "9", ".", "1">>
v_0_11_1 == <<"0", ".", "1", "1", ".", "1">>
v_0_11_2 == <<"0", ".", "1", "1", ".", "2">>
v_0_11_3 == <<"0", ".", "1", "1", ".", "3">>
v_0_15_1 == <<"0", ".", "1", "5", ".", "1">>
v_0_15_2 == <<"0", ".", "1", "5", ".", "2">>

\* _VERSION_EXCEPTIONS of each rule, as <<key, value>> pairs
TorchaudioExceptions == {<<v_1_8_2, v_0_9_1>>}

TorchtextExceptions ==
  {<<v_2_0_1, v_0_15_2>>, <<v_2_0_0, v_0_15_1>>, <<v_1_8_2, v_0_9_1>>}

TorchvisionExceptions ==
  {<<v_2_0_1, v_0_15_2>>, <<v_2_0_0, v_0_15_1>>, <<v_1_10_2, v_0_11_3>>,
   <<v_1_10_1, v_0_11_2>>, <<v_1_10_0, v_0_11_1>>, <<v_1_8_2, v_0_9_1>>}

\* torch_ver in _VERSION_EXCEPTIONS
InTable(table, torch_ver) == \E e \in table : e[1] = torch_ver

\* _VERSION_EXCEPTIONS[torch_ver]
Lookup(table, torch_ver) == (CHOOSE e \in table : e[1] = torch_ver)[2]

----------------------------------------------------------------------------
(* The three companion rules and find_latest.                              *)

determine_torchaudio(torch_version_) ==
  LET m == SearchVersion(torch_version_)
  IN IF m.err # "none" THEN m
     ELSE IF InTable(TorchaudioExceptions, m.val)
          THEN Ok(Lookup(TorchaudioExceptions, m.val))
     ELSE LET t == ParseTriple(m.val)
          IN IF t.err # "none" THEN t
             ELSE LET ver_major == t.val[1]
                      ver_minor == t.val[2]
                      ver_bugfix == t.val[3]
                  IN Ok(FormatTriple(
                       <<IF ver_major = 1 THEN 0 ELSE ver_major,
                         ver_minor, ver_bugfix>>))

\* determine_torchtext with the plateau starting one minor release late
\* ("ver_minor > 3"): C7 tells the two apart at 2.3.x
determine_torchtext_LatePlateau(torch_version_) ==
  LET m == SearchVersion(torch_version_)
  IN IF m.err # "none" THEN m
     ELSE IF InTable(TorchtextExceptions, m.val)
          THEN Ok(Lookup(TorchtextExceptions, m.val))
     ELSE LET t == ParseTriple(m.val)
          IN IF t.err # "none" THEN t
             ELSE IF t.val[1] = 1
                  THEN Ok(FormatTriple(<<0, t.val[2] + 1, t.val[3]>>))
                  ELSE IF t.val[1] = 2
                  THEN IF t.val[2] > 3
                       THEN Ok(FormatTriple(<<0, 18, 0>>))
                       ELSE Ok(FormatTriple(<<0, t.val[2] + 15, t.val[3]>>))
                  ELSE Raise("ValueError")

determine_torchtext(torch_version_) ==
  LET m == SearchVersion(torch_version_)
  IN IF m.err # "none" THEN m
     ELSE IF InTable(TorchtextExceptions, m.val)
          THEN Ok(Lookup(TorchtextExceptions, m.val))
     ELSE LET t == ParseTriple(m.val)
          IN IF t.err # "none" THEN t
             ELSE LET ver_major == t.val[1]
                      ver_minor == t.val[2]
                      ver_bugfix == t.val[3]
                  IN IF ver_major = 1
                     THEN Ok(FormatTriple(<<0, ver_minor + 1, ver_bugfix>>))
                     ELSE IF ver_major = 2
                     THEN IF ver_minor >= 3
                          THEN Ok(FormatTriple(<<0, 18, 0>>))
                          ELSE Ok(FormatTriple(<<0, ver_minor + 15, ver_bugfix>>))
                     ELSE Raise("ValueError")

\* determine_torchvision without the lookup in _VERSION_EXCEPTIONS: C8 tells
\* the two apart at every key of the table
determine_torchvision_NoTable(torch_version_) ==
  LET m == SearchVersion(torch_version_)
  IN IF m.err # "none" THEN m
     ELSE LET t == ParseTriple(m.val)
          IN IF t.err # "none" THEN t
             ELSE IF t.val[1] = 1
                  THEN Ok(FormatTriple(<<0, t.val[2] + 1, t.val[3]>>))
                  ELSE IF t.val[1] = 2
                  THEN Ok(FormatTriple(<<0, t.val[2] + 15, t.val[3]>>))
                  ELSE Raise("ValueError")

determine_torchvision(torch_version_) ==
  LET m == SearchVersion(torch_version_)
  IN IF m.err # "none" THEN m
     ELSE IF InTable(TorchvisionExceptions, m.val)
          THEN Ok(Lookup(TorchvisionExceptions, m.val))
     ELSE LET t == ParseTriple(m.val)
          IN IF t.err # "none" THEN t
             ELSE LET ver_major == t.val[1]
                      ver_minor == t.val[2]
                      ver_bugfix == t.val[3]
                  IN IF ver_major = 1
                     THEN Ok(FormatTriple(<<0, ver_minor + 1, ver_bugfix>>))
                     ELSE IF ver_major = 2
                     THEN Ok(FormatTriple(<<0, ver_minor + 15, ver_bugfix>>))
                     ELSE Raise("ValueError")

\* the package names, in the iteration order of the dict find_latest builds
torch == <<"t", "o", "r", "c", "h">>
torchvision == torch \o <<"v", "i", "s", "i", "o", "n">>
torchtext == torch \o <<"t", "e", "x", "t">>
torchaudio == torch \o <<"a", "u", "d", "i", "o">>

LibOrder == <<torch, torchvision, torchtext, torchaudio>>

\* find_latest that keeps the dot left at the end of the run: C9 tells the
\* two apart at "1.9.0.dev1"
find_latest_KeepDot(ver_) ==
  LET m == SearchVersion(ver_)
  IN IF m.err # "none" THEN m
     ELSE LET tv == determine_torchvision(m.val)
              tt == determine_torchtext(m.val)
              ta == determine_torchaudio(m.val)
          IN IF tv.err # "none" THEN tv
             ELSE IF tt.err # "none" THEN tt
             ELSE IF ta.err # "none" THEN ta
             ELSE Ok(<<<<torch, m.val>>, <<torchvision, tv.val>>,
                       <<torchtext, tt.val>>, <<torchaudio, ta.val>>>>)

\* find_latest(ver): the dict as a sequence of <<lib, version>> items in
\* insertion order; the values are evaluated torchvision, torchtext,
\* torchaudio and the first exception propagates
find_latest(ver_) ==
  LET m == SearchVersion(ver_)
  IN IF m.err # "none" THEN m
     ELSE LET ver == IF m.val[Len(m.val)] = "."
                     THEN SubSeq(m.val, 1, Len(m.val) - 1)
                     ELSE m.val
              tv == determine_torchvision(ver)
              tt == determine_torchtext(ver)
              ta == determine_torchaudio(ver)
          IN IF tv.err # "none" THEN tv
             ELSE IF tt.err # "none" THEN tt
             ELSE IF ta.err # "none" THEN ta
             ELSE Ok(<<<<torch, ver>>, <<torchvision, tv.val>>,
                       <<torchtext, tt.val>>, <<torchaudio, ta.val>>>>)

----------------------------------------------------------------------------
(* adjust: the rewriting of the manifest lines.                            *)

\* the pattern without its lookahead, rf"\b{lib}.*": C3 tells the two apart
\* at "torchx"
MatchAt_NoLookahead(lib, s, p) ==
  /\ p + Len(lib) - 1 <= Len(s)
  /\ SubSeq(s, p, p + Len(lib) - 1) = lib
  /\ p = 1 \/ s[p - 1] \notin WordChars

\* the pattern rf"\b{lib}(?![-_\w]).*" matches at index p of s: lib stands
\* there, a word boundary precedes it (lib starts with a word character, so
\* the character before p is none or a non-word character) and what follows
\* lib is no character of [-_\w]
MatchAt(lib, s, p) ==
  /\ p + Len(lib) - 1 <= Len(s)
  /\ SubSeq(s, p, p + Len(lib) - 1) = lib
  /\ p = 1 \/ s[p - 1] \notin WordChars
  /\ p + Len(lib) > Len(s) \/ s[p + Len(lib)] \notin IdentChars

\* least index >= i where the pattern matches, Len(s) + 1 if none
RECURSIVE FirstMatch(_, _, _)
FirstMatch(lib, s, i) ==
  IF i > Len(s) THEN Len(s) + 1
  ELSE IF MatchAt(lib, s, i) THEN i
  ELSE FirstMatch(lib, s, i + 1)

\* re.sub with the pattern lacking its ".*", so that only the name is
\* replaced and the old specifiers stay: C5 tells the two apart at "torch>=1"
RECURSIVE ReSubFrom_NameOnly(_, _, _, _)
ReSubFrom_NameOnly(lib, replace, s, i) ==
  LET p == FirstMatch(lib, s, i)
  IN IF p > Len(s) THEN SubSeq(s, i, Len(s))
     ELSE SubSeq(s, i, p - 1) \o replace
            \o ReSubFrom_NameOnly(lib, replace, s, p + Len(lib))

\* re.sub(pattern, replace, s) from index i on: every non-overlapping match
\* is replaced, leftmost first; ".*" runs to the end of the line, since "."
\* matches no newline
RECURSIVE ReSubFrom(_, _, _, _)
ReSubFrom(lib, replace, s, i) ==
  LET p == FirstMatch(lib, s, i)
      e == FindChar(s, {"\n"}, p + Len(lib))
  IN IF p > Len(s) THEN SubSeq(s, i, Len(s))
     ELSE SubSeq(s, i, p - 1) \o replace \o ReSubFrom(lib, replace, s, e)

ReSub(lib, replace, s) == ReSubFrom(lib, replace, s, 1)

\* the replacement written with ">=" for "==": C1 tells the two apart
Replacement_AtLeast(lib, version) ==
  IF version # <<>> THEN lib \o <<">", "=">> \o version ELSE <<>>

\* f"{lib}=={version}" if version else ""
Replacement(lib, version) ==
  IF version # <<>> THEN lib \o <<"=", "=">> \o version ELSE <<>>

\* the loop "for lib, version in options.items()" after its first k items
RECURSIVE ApplyRules(_, _, _)
ApplyRules(req, options, k) ==
  IF k = 0 THEN req
  ELSE ReSub(options[k][1], Replacement(options[k][1], options[k][2]),
             ApplyRules(req, options, k - 1))

\* the body of the loop "for req in requires": the line appended to requires_
AdjustLine(line, options) ==
  LET req_split == SplitOnce(Strip(line), "#")
      req == Strip(req_split[1])
      comment == IF Len(req_split) < 2 THEN <<>>
                 ELSE <<" ", " ", "#">> \o req_split[2]
  IN IF req = <<>> THEN Strip(comment)
     ELSE ApplyRules(req, options, Len(options)) \o RStrip(comment)

\* the installed torch package, whose __version__ adjust falls back to
NoTorch == [present |-> FALSE, version |-> <<>>]

Torch(v) == [present |-> TRUE, version |-> v]

\* the requirement part of a line is empty
OnlyComment(line) == Strip(SplitOnce(Strip(line), "#")[1]) = <<>>

\* adjust whose loop skips blank and comment-only lines instead of appending
\* them: C4 tells the two apart on any list with such a line
adjust_SkipBlank(requires_, pytorch_version, host) ==
  IF pytorch_version = <<>> /\ ~host.present THEN Raise("ImportError")
  ELSE LET version == IF pytorch_version = <<>> THEN host.version
                      ELSE pytorch_version
           kept == SelectSeq(requires_, LAMBDA l : ~OnlyComment(l))
       IN IF version = <<>> THEN Raise("ValueError")
          ELSE LET options == find_latest(version)
               IN IF options.err # "none" THEN options
                  ELSE Ok([i \in 1..Len(kept) |->
                             AdjustLine(kept[i], options.val)])

\* adjust(requires, pytorch_version) on a host with torch installed or not
adjust(requires_, pytorch_version, host) ==
  IF pytorch_version = <<>> /\ ~host.present THEN Raise("ImportError")
  ELSE LET version == IF pytorch_version = <<>> THEN host.version
                      ELSE pytorch_version
       IN IF version = <<>> THEN Raise("ValueError")
          ELSE LET options == find_latest(version)
               IN IF options.err # "none" THEN options
                  ELSE Ok([i \in 1..Len(requires_) |->
                             AdjustLine(requires_[i], options.val)])

----------------------------------------------------------------------------
(* Bounds of the checked inputs.                                           *)

\* version components run over 0..MaxMajor, 0..MaxMinor, 0..MaxPatch
MaxMajor == 3
MaxMinor == 10
MaxPatch == 2
\* components beyond the three of MAJOR.MINOR.PATCH
MaxExtra == 1

\* decimal numeral of n < 100, used to write the inputs down
Dec(n) ==
  IF n < 10 THEN <<DigitChar(n)>>
  ELSE <<DigitChar(n \div 10), DigitChar(n % 10)>>

Dotted(a, b) == a \o <<".">> \o b

Triple(ma, mi, pa) == Dotted(Dotted(Dec(ma), Dec(mi)), Dec(pa))

\* a component may also be missing ("1..0", "1.9.")
MajorParts == {Dec(n) : n \in 0..MaxMajor} \cup {<<>>}
MinorParts == {Dec(n) : n \in 0..MaxMinor} \cup {<<>>}
PatchParts == {Dec(n) : n \in 0..MaxPatch} \cup {<<>>}
\* a fourth, fifth, ... component ("1.9.0.1")
ExtraParts == {Dec(0), Dec(1)}

RECURSIVE Cores(_)
Cores(extra) ==
  IF extra = 0
  THEN MajorParts
       \cup {Dotted(a, b) : a \in MajorParts, b \in MinorParts}
       \cup {Dotted(Dotted(a, b), c) :
               a \in MajorParts, b \in MinorParts, c \in PatchParts}
  ELSE LET prev == Cores(extra - 1)
       IN prev \cup {Dotted(p, c) : p \in prev, c \in ExtraParts}

\* what surrounds the digits-and-dots core: <<prefix, suffix>>
Affixes ==
  {<< <<>>, <<>> >>,
   << <<"v">>, <<>> >>,
   << <<>>, <<".">> >>,
   << <<>>, <<".", "d", "e", "v", "1">> >>,
   << <<>>, <<"+", "c", "u", "1">> >>,
   << <<>>, <<"r", "c", "1">> >>}

VersionInputs ==
  {af[1] \o c \o af[2] : c \in Cores(MaxExtra), af \in Affixes}

----------------------------------------------------------------------------
(* Calls of find_latest on every input version.                            *)

Idle ==
  /\ installed = NoTorch
  /\ requires = <<>>
  /\ adjusted = Ok(<<>>)
  /\ readjusted = Ok(<<>>)
  /\ disk = <<>>
  /\ disk_before = <<>>

InitResolve ==
  /\ pc = "call"
  /\ torch_version \in VersionInputs
  /\ latest = Ok(<<>>)
  /\ Idle

ResolveReturn ==
  /\ pc = "call"
  /\ latest' = find_latest(torch_version)
  /\ latest'.err = "none"
  /\ pc' = "returned"
  /\ UNCHANGED <<torch_version, installed, requires, adjusted, readjusted,
                 disk, disk_before>>

ResolveRaise ==
  /\ pc = "call"
  /\ latest' = find_latest(torch_version)
  /\ latest'.err # "none"
  /\ pc' = "raised"
  /\ UNCHANGED <<torch_version, installed, requires, adjusted, readjusted,
                 disk, disk_before>>

NextResolve == ResolveReturn \/ ResolveRaise

SpecResolve == InitResolve /\ [][NextResolve]_vars

----------------------------------------------------------------------------
(* What the claims say about find_latest, stated without the resolver.     *)

HasRun(s) == \E i \in 1..Len(s) : s[i] \in VerChars

\* the first maximal run of digits and dots of s (s has one)
FirstRun(s) ==
  LET b == CHOOSE i \in 1..Len(s) :
             s[i] \in VerChars /\ \A j \in 1..(i - 1) : s[j] \notin VerChars
      e == CHOOSE k \in b..Len(s) :
             /\ \A j \in b..k : s[j] \in VerChars
             /\ k = Len(s) \/ s[k + 1] \notin VerChars
  IN SubSeq(s, b, e)

\* the run with one trailing dot removed
Normalized(s) ==
  LET r == FirstRun(s)
  IN IF r[Len(r)] = "." THEN SubSeq(r, 1, Len(r) - 1) ELSE r

\* n is three non-empty runs of digits separated by two dots
IsThreeInts(n) ==
  /\ n # <<>>
  /\ Cardinality({i \in 1..Len(n) : n[i] = "."}) = 2
  /\ n[1] # "." /\ n[Len(n)] # "."
  /\ \A i \in 1..(Len(n) - 1) : ~(n[i] = "." /\ n[i + 1] = ".")

Resolved == pc \in {"returned", "raised"}

\* the versions that are a key of some exception table
ExceptionKeys == {v_1_8_2, v_1_10_0, v_1_10_1, v_1_10_2, v_2_0_0, v_2_0_1}

\* the mapping C7 states for MAJOR.MINOR.PATCH outside the tables
ArithmeticMap(ma, mi, pa) ==
  <<<<torch, Triple(ma, mi, pa)>>,
    <<torchvision, Triple(0, IF ma = 1 THEN mi + 1 ELSE mi + 15, pa)>>,
    <<torchtext, IF ma = 1 THEN Triple(0, mi + 1, pa)
                 ELSE IF mi < 3 THEN Triple(0, mi + 15, pa)
                 ELSE Triple(0, 18, 0)>>,
    <<torchaudio, Triple(IF ma = 1 THEN 0 ELSE ma, mi, pa)>>>>

\* C7: for every primary version MAJOR.MINOR.PATCH with MAJOR in {1, 2} that
\* is in no exception table, find_latest returns exactly the four entries
\* torch, torchvision, torchtext, torchaudio with the arithmetic versions:
\* torch the normalized input, torchaudio 0.MINOR.PATCH for MAJOR 1 and
\* MAJOR.MINOR.PATCH otherwise, torchtext 0.(MINOR+1).PATCH for MAJOR 1,
\* 0.(MINOR+15).PATCH for MAJOR 2 with MINOR < 3 and 0.18.0 for MAJOR 2 with
\* MINOR >= 3, torchvision 0.(MINOR+1).PATCH or 0.(MINOR+15).PATCH.
C7_ArithmeticRule ==
  Resolved /\ HasRun(torch_version) =>
    \A ma \in {1, 2}, mi \in 0..MaxMinor, pa \in 0..MaxPatch :
      /\ Normalized(torch_version) = Triple(ma, mi, pa)
      /\ Triple(ma, mi, pa) \notin ExceptionKeys
      => /\ pc = "returned"
         /\ latest = Ok(ArithmeticMap(ma, mi, pa))

\* "2.4.1" gives torchaudio 2.4.1, torchtext 0.18.0, torchvision 0.19.1
C7_Witness ==
  /\ pc = "returned"
  /\ torch_version = Triple(2, 4, 1)
  /\ latest.val = <<<<torch, Triple(2, 4, 1)>>,
                    <<torchvision, Triple(0, 19, 1)>>,
                    <<torchtext, Triple(0, 18, 0)>>,
                    <<torchaudio, Triple(2, 4, 1)>>>>

\* the version find_latest returned for lib
Entry(lib) == (CHOOSE item \in {latest.val[i] : i \in 1..Len(latest.val)} :
                 item[1] = lib)[2]

\* the pins C8 names: <<primary version, companion, pin>>
NamedPins ==
  {<<v_1_8_2, torchaudio, v_0_9_1>>, <<v_1_8_2, torchtext, v_0_9_1>>,
   <<v_1_8_2, torchvision, v_0_9_1>>, <<v_2_0_1, torchtext, v_0_15_2>>,
   <<v_2_0_1, torchvision, v_0_15_2>>, <<v_1_10_0, torchvision, v_0_11_1>>}

\* every entry of the three exception tables, in the same shape
TablePins ==
  {<<e[1], torchaudio, e[2]>> : e \in TorchaudioExceptions}
    \cup {<<e[1], torchtext, e[2]>> : e \in TorchtextExceptions}
    \cup {<<e[1], torchvision, e[2]>> : e \in TorchvisionExceptions}

\* C8: the exception tables are checked before the arithmetic rule and win
\* over it: for every normalized primary version listed in a companion's
\* table, with or without a dev/build suffix on the input, find_latest
\* returns the table's pin for that companion ("1.8.2" gives 0.9.1 for all
\* three, "2.0.1" gives 0.15.2 for torchtext and torchvision, "1.10.0" gives
\* torchvision 0.11.1).
C8_ExceptionsWin ==
  Resolved /\ HasRun(torch_version) =>
    \A pin \in NamedPins \cup TablePins :
      Normalized(torch_version) = pin[1]
      => pc = "returned" /\ Entry(pin[2]) = pin[3]

\* "1.8.2.dev1" resolves to the pin 0.9.1, not to the arithmetic 0.9.2
C8_Witness ==
  /\ pc = "returned"
  /\ torch_version = v_1_8_2 \o <<".", "d", "e", "v", "1">>
  /\ Entry(torchvision) = v_0_9_1
  /\ Entry(torchtext) = v_0_9_1
  /\ Entry(torchaudio) = v_0_9_1
  /\ v_0_9_1 # Triple(0, 9, 2)

\* C9: find_latest uses only the first run of digits and dots of its input,
\* with one trailing '.' stripped: the input resolves exactly like that
\* normalized run and the returned torch entry is the normalized run; when
\* the normalized run is not exactly three integers separated by dots, or
\* the input has no such run, find_latest raises and returns no mapping.
C9_Normalization ==
  Resolved =>
    IF HasRun(torch_version) /\ IsThreeInts(Normalized(torch_version))
    THEN /\ latest = find_latest(Normalized(torch_version))
         /\ pc = "returned" => latest.val[1] = <<torch, Normalized(torch_version)>>
    ELSE pc = "raised" /\ latest.err # "none" /\ latest.val = <<>>

\* "1.9.0.dev1" resolves like "1.9.0" and its torch entry is "1.9.0"
C9_Witness ==
  /\ pc = "returned"
  /\ torch_version = Triple(1, 9, 0) \o <<".", "d", "e", "v", "1">>
  /\ latest.val[1] = <<torch, Triple(1, 9, 0)>>
  /\ Entry(torchvision) = Triple(0, 10, 0)

----------------------------------------------------------------------------
(* Calls of adjust on generated requirement lines and on the lines of the  *)
(* test manifest.                                                          *)

\* a generated line is at most MaxTokens tokens, a list at most MaxLines lines
MaxTokens == 3
MaxLines == 2

LineTokens ==
  {torch, torchvision, torchtext, torchaudio,
   <<"x">>, <<"-">>, <<"_">>, <<" ">>, <<">", "=", "1">>, <<"#">>}

RECURSIVE GenLines(_)
GenLines(n) ==
  IF n = 0 THEN {<<>>}
  ELSE LET prev == GenLines(n - 1)
       IN prev \cup {p \o t : p \in prev, t \in LineTokens}

\* lines of tests/scripts/test_adjust_torch_versions.py, as readlines() gives
\* them, and the first line of the doctest of adjust
line_blank ==
  <<"\n">>
line_comment ==
  <<"#", " ", "T", "h", "i", "s", " ", "i", "s", " ", "s", "a", "m", "p",
    "l", "e", " ", "r", "e", "q", "u", "i", "r", "e", "m", "e", "n", "t",
    "s", " ", "f", "i", "l", "e", "\n">>
line_torchvision ==
  <<"t", "o", "r", "c", "h", "v", "i", "s", "i", "o", "n", " ", ">", "=",
    "0", ".", "1", "3", ".", "0", ",", " ", "<", "0", ".", "1", "6", ".",
    "0", " ", " ", "#", " ", "s", "a", "m", "p", "l", "e", " ", "#", " ",
    "c", "o", "m", "m", "e", "n", "t", "\n">>
line_gym ==
  <<"g", "y", "m", "[", "c", "l", "a", "s", "s", "i", "c", "_", "c", "o",
    "n", "t", "r", "o", "l", "]", " ", ">", "=", "0", ".", "1", "7", ".",
    "0", ",", " ", "<", "0", ".", "2", "7", ".", "0", "\n">>
line_ipython ==
  <<"i", "p", "y", "t", "h", "o", "n", "[", "a", "l", "l", "]", " ", "<",
    "8", ".", "1", "5", ".", "0", " ", " ", "#", " ", "s", "t", "r", "i",
    "c", "t", "\n">>
line_torchmetrics ==
  <<"t", "o", "r", "c", "h", "m", "e", "t", "r", "i", "c", "s", " ", ">",
    "=", "0", ".", "1", "0", ".", "0", ",", " ", "<", "1", ".", "3", ".",
    "0", "\n">>
line_lightning ==
  <<"l", "i", "g", "h", "t", "n", "i", "n", "g", "-", "u", "t", "i", "l",
    "i", "t", "i", "e", "s", " ", ">", "=", "0", ".", "8", ".", "0", ",",
    " ", "<", "0", ".", "1", "0", ".", "0", "\n">>
line_torch ==
  <<"t", "o", "r", "c", "h", ">", "=", "1", ".", "9", ".", "0", "\n">>

SampleLines ==
  {line_blank, line_comment, line_torchvision, line_gym, line_ipython,
   line_torchmetrics, line_lightning, line_torch}

RECURSIVE SampleLists(_)
SampleLists(n) ==
  IF n = 0 THEN {<<>>}
  ELSE LET prev == SampleLists(n - 1)
       IN prev \cup {Append(p, l) : p \in prev, l \in SampleLines}

v_2_4_1 == <<"2", ".", "4", ".", "1">>
v_3_0_0 == <<"3", ".", "0", ".", "0">>
v_1_9 == <<"1", ".", "9">>
v_abc == <<"a", "b", "c">>

\* primary versions that resolve, and arguments that do not
GoodVersions == {v_1_10_0, v_2_4_1}
BadVersions == {v_3_0_0, v_1_9, v_abc}

InitAdjust ==
  /\ pc = "call"
  /\ \/ /\ requires \in {<<l>> : l \in GenLines(MaxTokens)}
        /\ torch_version = v_1_10_0
     \/ /\ requires \in SampleLists(MaxLines)
        /\ torch_version \in GoodVersions \cup BadVersions
  /\ installed = NoTorch
  /\ adjusted = Ok(<<>>)
  /\ readjusted = Ok(<<>>)
  /\ latest = Ok(<<>>)
  /\ disk = <<>>
  /\ disk_before = <<>>

AdjustReturn ==
  /\ pc = "call"
  /\ adjusted' = adjust(requires, torch_version, installed)
  /\ adjusted'.err = "none"
  /\ pc' = "adjusted"
  /\ UNCHANGED <<torch_version, installed, requires, readjusted, latest,
                 disk, disk_before>>

AdjustRaise ==
  /\ pc = "call"
  /\ adjusted' = adjust(requires, torch_version, installed)
  /\ adjusted'.err # "none"
  /\ pc' = "raised"
  /\ UNCHANGED <<torch_version, installed, requires, readjusted, latest,
                 disk, disk_before>>

\* adjust called on its own output, with the same primary version
AdjustAgain ==
  /\ pc = "adjusted"
  /\ readjusted' = adjust(adjusted.val, torch_version, installed)
  /\ pc' = "readjusted"
  /\ UNCHANGED <<torch_version, installed, requires, adjusted, latest,
                 disk, disk_before>>

NextAdjust == AdjustReturn \/ AdjustRaise \/ AdjustAgain

SpecAdjust == InitAdjust /\ [][NextAdjust]_vars

----------------------------------------------------------------------------
(* What the claims say about adjust, stated on the text of the lines.      *)

NonBlank(s) == {i \in 1..Len(s) : s[i] \notin Whitespace}

\* s without its leading and trailing whitespace
Trim(s) ==
  IF NonBlank(s) = {} THEN <<>>
  ELSE SubSeq(s,
              CHOOSE a \in NonBlank(s) : \A j \in NonBlank(s) : a <= j,
              CHOOSE b \in NonBlank(s) : \A j \in NonBlank(s) : j <= b)

Hashes(s) == {i \in 1..Len(s) : s[i] = "#"}

FirstHash(s) == CHOOSE h \in Hashes(s) : \A j \in Hashes(s) : h <= j

\* the requirement part of a line: the trimmed text before the first '#'
ReqPart(line) ==
  LET t == Trim(line)
  IN IF Hashes(t) = {} THEN t ELSE Trim(SubSeq(t, 1, FirstHash(t) - 1))

\* the comment as the output carries it: "  #" and the text after the first
\* '#' of the trimmed line, nothing for a line without '#'
CommentPart(line) ==
  LET t == Trim(line)
  IN IF Hashes(t) = {} THEN <<>>
     ELSE <<" ", " ", "#">> \o SubSeq(t, FirstHash(t) + 1, Len(t))

Names == {torch, torchvision, torchtext, torchaudio}

\* letter, digit, underscore or hyphen
NameChars == Letters \cup Digits \cup {"_", "-"}

\* name stands at index p of s
OccursAt(name, s, p) ==
  p + Len(name) - 1 <= Len(s) /\ SubSeq(s, p, p + Len(name) - 1) = name

\* the occurrence of name at p is followed by a letter, digit, '_' or '-'
Continues(name, s, p) ==
  p + Len(name) <= Len(s) /\ s[p + Len(name)] \in NameChars

\* s starts with name as a whole token
StartsWithToken(s, name) == OccursAt(name, s, 1) /\ ~Continues(name, s, 1)

\* the version find_latest resolves for name under the primary version
VersionOf(name) ==
  LET items == find_latest(torch_version).val
  IN (CHOOSE item \in {items[i] : i \in 1..Len(items)} : item[1] = name)[2]

Adjusted == pc \in {"adjusted", "readjusted"}

\* C1: a line whose requirement part starts with torch, torchvision,
\* torchtext or torchaudio as a whole token comes out of adjust as exactly
\* "<name>==<version find_latest resolves for the name>", the original
\* specifiers dropped, followed by "  #" and the text after the first '#' of
\* the (trimmed) line when the line has a comment.
C1_PinRewritten ==
  Adjusted =>
    \A i \in 1..Len(requires) :
      LET req == ReqPart(requires[i])
      IN \A name \in Names :
           StartsWithToken(req, name)
           => adjusted.val[i] = name \o <<"=", "=">> \o VersionOf(name)
                                  \o CommentPart(requires[i])

\* the torchvision line of the test, under primary version 1.10.0
C1_Witness ==
  /\ pc = "adjusted"
  /\ torch_version = v_1_10_0
  /\ requires = <<line_torchvision>>
  /\ adjusted.val[1]
       = torchvision \o <<"=", "=">> \o v_0_11_1
           \o <<" ", " ", "#", " ", "s", "a", "m", "p", "l", "e", " ", "#",
                " ", "c", "o", "m", "m", "e", "n", "t">>

Comparators == {" ", "[", "<", ">", "=", "!", "~"}

Stops(s) == {i \in 1..Len(s) : s[i] \in Comparators}

\* the package a requirement names: the text before the first space, '[' or
\* version comparator
PackageName(req) ==
  IF Stops(req) = {} THEN req
  ELSE SubSeq(req, 1, (CHOOSE a \in Stops(req) : \A j \in Stops(req) : a <= j) - 1)

\* C2: a line whose requirement names a package other than torch,
\* torchvision, torchtext and torchaudio comes out as its trimmed requirement
\* part with its comment kept; a blank or comment-only line comes out as its
\* trimmed self.
C2_OtherPackagesUntouched ==
  Adjusted =>
    \A i \in 1..Len(requires) :
      LET req == ReqPart(requires[i])
      IN IF req = <<>> THEN adjusted.val[i] = Trim(requires[i])
         ELSE PackageName(req) \notin Names
              => adjusted.val[i] = req \o CommentPart(requires[i])

\* the requirement part of line i as the first k rules leave it
AfterRules(req, options, k) == ApplyRules(req, options, k)

C4_LineByLine ==
  Adjusted =>
    /\ Len(adjusted.val) = Len(requires)
    /\ \A i \in 1..Len(requires) :
         adjusted.val[i] = adjust(<<requires[i]>>, torch_version, installed).val[1]

\* a blank line, then a rewritten line
C4_Witness ==
  /\ pc = "adjusted"
  /\ requires = <<line_blank, line_torchvision>>
  /\ Len(adjusted.val) = 2
  /\ adjusted.val[1] = <<>>
  /\ adjusted.val[2] # <<>>

\* C5: idempotence: adjust applied to its own output with the same primary
\* version returns that output, line by line.
C5_Idempotent ==
  pc = "readjusted" => readjusted = adjusted

\* a rewritten line with an inline comment, rewritten again
C5_Witness ==
  /\ pc = "readjusted"
  /\ requires = <<line_comment, line_torchvision>>
  /\ adjusted.val # requires
  /\ readjusted.val = adjusted.val

\* the rules that changed the requirement part of line i
RulesFired(req, options) ==
  {k \in 1..Len(LibOrder) :
     AfterRules(req, options, k) # AfterRules(req, options, k - 1)}

\* C10: at most one substitution is applied to a line: once one companion's
\* rule has rewritten the requirement part, no later rule changes it again.
C10_AtMostOneSubstitution ==
  Adjusted =>
    LET options == find_latest(torch_version).val
    IN \A i \in 1..Len(requires) :
         Cardinality(RulesFired(ReqPart(requires[i]), options)) <= 1

----------------------------------------------------------------------------
(* main: read the manifest, adjust it in memory, write it back.            *)

\* torch.__version__ of a host that has torch
v_installed == v_2_4_1 \o <<"+", "c", "u", "1">>

Init ==
  /\ pc = "start"
  /\ disk \in SampleLists(MaxLines)
  /\ disk_before = disk
  /\ torch_version \in GoodVersions \cup BadVersions \cup {<<>>}
  /\ installed \in {NoTorch, Torch(v_installed)}
  /\ requires = <<>>
  /\ adjusted = Ok(<<>>)
  /\ readjusted = Ok(<<>>)
  /\ latest = Ok(<<>>)

\* main opening the manifest in "w" mode before adjust has run, which
\* truncates it: C6 tells the two apart
MainRead_Truncating ==
  /\ pc = "start"
  /\ requires' = disk
  /\ disk' = <<>>
  /\ pc' = "read"
  /\ UNCHANGED <<torch_version, installed, adjusted, readjusted, latest,
                 disk_before>>

\* with open(requirements_path) as fopen: requirements = fopen.readlines()
MainRead ==
  /\ pc = "start"
  /\ requires' = disk
  /\ pc' = "read"
  /\ UNCHANGED <<torch_version, installed, adjusted, readjusted, latest,
                 disk, disk_before>>

\* requirements = adjust(requirements, torch_version), returning
MainAdjustReturn ==
  /\ pc = "read"
  /\ adjusted' = adjust(requires, torch_version, installed)
  /\ adjusted'.err = "none"
  /\ pc' = "adjusted"
  /\ UNCHANGED <<torch_version, installed, requires, readjusted, latest,
                 disk, disk_before>>

\* the same call raising: the exception ends main
MainAdjustRaise ==
  /\ pc = "read"
  /\ adjusted' = adjust(requires, torch_version, installed)
  /\ adjusted'.err # "none"
  /\ pc' = "raised"
  /\ UNCHANGED <<torch_version, installed, requires, readjusted, latest,
                 disk, disk_before>>

\* with open(requirements_path, "w") as fopen: fopen.writelines(...)
MainWrite ==
  /\ pc = "adjusted"
  /\ disk' = [i \in 1..Len(adjusted.val) |-> adjusted.val[i] \o linesep]
  /\ pc' = "done"
  /\ UNCHANGED <<torch_version, installed, requires, adjusted, readjusted,
                 latest, disk_before>>

Next == MainRead \/ MainAdjustReturn \/ MainAdjustRaise \/ MainWrite

Spec == Init /\ [][Next]_vars

\* the invocations C6 names: a primary version that does not resolve, or no
\* version argument on a host without torch
ResolutionFails ==
  \/ torch_version \in BadVersions
  \/ torch_version = <<>> /\ ~installed.present

\* C6: main opens the manifest for writing only after adjust has returned:
\* when resolution fails the invocation ends in an error with the file as it
\* was before the invocation, and on success the file holds exactly the
\* rewritten lines.
C6_WriteAfterAdjust ==
  /\ pc # "done" => disk = disk_before
  /\ ResolutionFails /\ pc \notin {"start", "read"}
     => pc = "raised" /\ adjusted.err # "none"
  /\ pc = "done"
     => /\ ~ResolutionFails
        /\ adjusted = adjust(disk_before, torch_version, installed)
        /\ Len(disk) = Len(disk_before)
        /\ \A i \in 1..Len(disk) : disk[i] = adjusted.val[i] \o linesep

\* primary version 3.0.0 on a manifest with a torchvision line
C6_Witness ==
  /\ pc = "raised"
  /\ torch_version = v_3_0_0
  /\ adjusted.err = "ValueError"
  /\ disk = <<line_comment, line_torchvision>>
  /\ disk = disk_before

====
